---------------------------- MODULE Spec2Model ----------------------------
(***************************************************************************)
(* cosplae: a stack IR lowered to raw x86-64 machine code and wrapped in a *)
(* single-segment ELF64 image.                                             *)
(*                                                                         *)
(* The model has three layers:                                             *)
(*   - the front end (codegen.rs): statements -> IR, with LocalEnv;        *)
(*   - the back end (elfgen.rs): IR -> code bytes -> ELF image -> file;    *)
(*   - the produced image running on the processor: the emitted bytes are  *)
(*     decoded and executed one instruction at a time.                     *)
(* 64-bit quantities are little-endian 8-tuples of bytes, so that no       *)
(* intermediate value leaves the range of TLC's integers.                  *)
(***************************************************************************)
EXTENDS Integers, Sequences, FiniteSets, TLC

VARIABLES
    prog,       \* the ProgramIR handed to the back end: [funcs |-> Seq(Func)]
    origin,     \* where prog comes from: the source block of main, or "ir"
    m,          \* the running image: registers, flags, stack memory, output
    compiler,   \* the Compiler value: [code, data]
    fs,         \* the file at out_path and the process's umask
    ret,        \* what the last compile_program call returned
    hist        \* per build: what was returned and what the file then held

vars == <<prog, origin, m, compiler, fs, ret, hist>>

(***************************************************************************)
(* Bytes and 64-bit words                                                  *)
(***************************************************************************)
Byte == 0..255

ZeroWord == <<0, 0, 0, 0, 0, 0, 0, 0>>

\* The low `n` bytes of integer v in two's complement, least significant first.
to_le_bytes(v, n) == [k \in 1..n |-> (v \div (256 ^ (k - 1))) % 256]

\* `as u8`: the low byte of an integer.
AsU8(v) == v % 256

\* A signed 32-bit integer sign-extended to a 64-bit word.
SignExtend32(v) ==
    [k \in 1..8 |-> IF k <= 4 THEN (v \div (256 ^ (k - 1))) % 256
                    ELSE IF v < 0 THEN 255 ELSE 0]

\* Four little-endian bytes read as a signed 32-bit integer.
FromLE32(b) ==
    LET u == b[1] + 256 * b[2] + 65536 * b[3] + 16777216 * (b[4] % 128)
    IN  IF b[4] >= 128 THEN u - 2147483647 - 1 ELSE u

\* One byte read as a signed 8-bit integer.
FromS8(b) == IF b >= 128 THEN b - 256 ELSE b

RECURSIVE AddBytes(_, _, _, _, _)
AddBytes(a, b, k, c, acc) ==
    IF k > Len(a) THEN acc
    ELSE LET s == a[k] + b[k] + c
         IN  AddBytes(a, b, k + 1, s \div 256, Append(acc, s % 256))

NotW(a) == [k \in 1..Len(a) |-> 255 - a[k]]

Add64(a, b) == AddBytes(a, b, 1, 0, <<>>)

Sub64(a, b) == AddBytes(a, NotW(b), 1, 1, <<>>)

Neg64(a) == Sub64([k \in 1..Len(a) |-> 0], a)

IsZeroW(a) == \A k \in 1..Len(a) : a[k] = 0

SignBit(a) == a[Len(a)] >= 128

\* Unsigned comparison a < b, from the most significant byte down.
RECURSIVE ULessFrom(_, _, _)
ULessFrom(a, b, k) ==
    IF k = 0 THEN FALSE
    ELSE IF a[k] # b[k] THEN a[k] < b[k]
    ELSE ULessFrom(a, b, k - 1)

ULess(a, b) == ULessFrom(a, b, Len(a))

RECURSIVE MulSum(_, _, _, _)
MulSum(a, b, k, i) ==
    IF i > k THEN 0 ELSE a[i] * b[k + 1 - i] + MulSum(a, b, k, i + 1)

RECURSIVE MulBytes(_, _, _, _, _)
MulBytes(a, b, k, c, acc) ==
    IF k > 8 THEN acc
    ELSE LET s == c + MulSum(a, b, k, 1)
         IN  MulBytes(a, b, k + 1, s \div 256, Append(acc, s % 256))

\* The low 64 bits of the product.
Mul64(a, b) == MulBytes(a, b, 1, 0, <<>>)

\* Bit i (0 = least significant) of a word.
BitOf(a, i) == (a[(i \div 8) + 1] \div (2 ^ (i % 8))) % 2

RECURSIVE Shl1From(_, _, _, _)
Shl1From(a, k, c, acc) ==
    IF k > Len(a) THEN acc
    ELSE LET s == 2 * a[k] + c
         IN  Shl1From(a, k + 1, s \div 256, Append(acc, s % 256))

\* a shifted left by one bit, `bit` shifted in at the bottom.
Shl1(a, bit) == Shl1From(a, 1, bit, <<>>)

\* Restoring division, one dividend bit per step, from bit i down to bit 0:
\* [q, r] with r < d the running remainder.
RECURSIVE UDivBits(_, _, _, _, _)
UDivBits(lo, d, i, q, r) ==
    IF i < 0 \/ Len(q) # 8 THEN [q |-> q, r |-> r]
    ELSE LET r2 == Shl1(r, BitOf(lo, i))
             ge == SignBit(r) \/ ~ULess(r2, d)
         IN  UDivBits(lo, d, i - 1, Shl1(q, IF ge THEN 1 ELSE 0),
                      IF ge THEN Sub64(r2, d) ELSE r2)

\* Unsigned (hi:lo) / d for hi < d: the 64-bit quotient and the remainder.
UDivMod(hi, lo, d) == UDivBits(lo, d, 63, ZeroWord, hi)

(***************************************************************************)
(* ir.rs                                                                   *)
(***************************************************************************)
PushI32(n) == [op |-> "PushI32", arg |-> n]
Pop        == [op |-> "Pop",     arg |-> 0]
Load(i)    == [op |-> "Load",    arg |-> i]
Store(i)   == [op |-> "Store",   arg |-> i]
Add        == [op |-> "Add",     arg |-> 0]
Sub        == [op |-> "Sub",     arg |-> 0]
Mul        == [op |-> "Mul",     arg |-> 0]
Div        == [op |-> "Div",     arg |-> 0]
PrintOp    == [op |-> "Print",   arg |-> 0]
Ret        == [op |-> "Ret",     arg |-> 0]

Func(name, code, n_locals) == [name |-> name, code |-> code, n_locals |-> n_locals]

\* A main_index that takes the first function for main, whatever its name.
main_index_first(p) == IF Len(p.funcs) > 0 THEN 1 ELSE 0

\* The position of the first function named main; 0 stands for None.
main_index(p) ==
    IF \E i \in 1..Len(p.funcs) : p.funcs[i].name = "main"
    THEN CHOOSE i \in 1..Len(p.funcs) :
            /\ p.funcs[i].name = "main"
            /\ \A j \in 1..(i - 1) : p.funcs[j].name # "main"
    ELSE 0

(***************************************************************************)
(* elfgen.rs: the Code Emitter.  Each emit_* takes the code buffer and     *)
(* returns it with the instruction's bytes appended.                       *)
(***************************************************************************)
\* A prologue that always takes the one-byte immediate for the frame size.
emit_prologue_imm8(code, n_locals) ==
    LET c2 == code \o <<\h55>> \o <<\h48, \h89, \hE5>>
    IN  IF n_locals > 0 THEN c2 \o <<\h48, \h83, \hEC, AsU8(n_locals * 8)>> ELSE c2

emit_prologue(code, n_locals) ==
    LET c1 == code \o <<\h55>>                      \* push rbp
        c2 == c1 \o <<\h48, \h89, \hE5>>            \* mov rbp, rsp
        stack_size == n_locals * 8
    IN  IF n_locals > 0
        THEN IF stack_size <= 127
             THEN c2 \o <<\h48, \h83, \hEC, AsU8(stack_size)>>          \* sub rsp, imm8
             ELSE c2 \o <<\h48, \h81, \hEC>> \o to_le_bytes(stack_size, 4) \* sub rsp, imm32
        ELSE c2

emit_push_i32(code, value) == code \o <<\h68>> \o to_le_bytes(value, 4)

\* An emit_pop_discard that drops two words: add rsp, 16.
emit_pop_discard_two(code) == code \o <<\h48, \h83, \hC4, \h10>>

emit_pop_discard(code) == code \o <<\h48, \h83, \hC4, \h08>>

\* An emit_load that keeps the one-byte displacement for every offset a byte holds.
emit_load_byte(code, idx) ==
    LET offset == (idx + 1) * 8
    IN  IF offset <= 255
        THEN code \o <<\hFF, \h75, AsU8(256 - offset)>>
        ELSE code \o <<\h48, \h8B, \h85>> \o to_le_bytes(-offset, 4) \o <<\h50>>

emit_load(code, idx) ==
    LET offset == (idx + 1) * 8
    IN  IF offset <= 128
        THEN code \o <<\hFF, \h75, AsU8(256 - offset)>>
        ELSE code \o <<\h48, \h8B, \h85>> \o to_le_bytes(-offset, 4) \o <<\h50>>

emit_store(code, idx) ==
    LET offset == (idx + 1) * 8
        c1 == code \o <<\h58>>
    IN  IF offset <= 128
        THEN c1 \o <<\h48, \h89, \h45, AsU8(256 - offset)>>
        ELSE c1 \o <<\h48, \h89, \h85>> \o to_le_bytes(-offset, 4)

emit_add(code) == code \o <<\h5B, \h58, \h48, \h01, \hD8, \h50>>

\* An emit_sub that pops the left operand first: pop rax; pop rbx.
emit_sub_swapped(code) == code \o <<\h58, \h5B, \h48, \h29, \hD8, \h50>>

emit_sub(code) == code \o <<\h5B, \h58, \h48, \h29, \hD8, \h50>>

emit_mul(code) == code \o <<\h5B, \h58, \h48, \h0F, \hAF, \hC3, \h50>>

\* An emit_div that divides unsigned: xor rdx, rdx; div rbx.
emit_div_unsigned(code) ==
    code \o <<\h5B, \h58, \h48, \h31, \hD2, \h48, \hF7, \hF3, \h50>>

emit_div(code) == code \o <<\h5B, \h58, \h48, \h99, \h48, \hF7, \hFB, \h50>>

\* The sign test of emit_print: test rax, rax; jns; neg rax; push 1; jmp; push 0.
emit_print_sign(code) ==
    code \o <<\h48, \h85, \hC0>>    \* test rax, rax
         \o <<\h79, \h05>>          \* jns .positive
         \o <<\h48, \hF7, \hD8>>    \* neg rax
         \o <<\h6A, \h01>>          \* push 1
         \o <<\hEB, \h02>>          \* jmp .convert
         \o <<\h6A, \h00>>          \* .positive: push 0

\* The digit loop of emit_print, with its backward branch computed from the
\* buffer's length as the code computes it.
emit_print_loop(code) ==
    LET loop_start == Len(code)
        c1 == code \o <<\h48, \h31, \hD2>>   \* xor rdx, rdx
                   \o <<\h48, \hF7, \hF3>>   \* div rbx
                   \o <<\h80, \hC2, \h30>>   \* add dl, '0'
                   \o <<\h88, \h17>>         \* mov [rdi], dl
                   \o <<\h48, \hFF, \hCF>>   \* dec rdi
                   \o <<\h48, \h85, \hC0>>   \* test rax, rax
        loop_offset == -(Len(c1) - loop_start + 2)
    IN  c1 \o <<\h75, AsU8(loop_offset)>>    \* jnz .loop

emit_print(code) ==
    LET c1 == code \o <<\h58>>                             \* pop rax
                   \o <<\h53, \h51, \h52>>                 \* push rbx, rcx, rdx
                   \o <<\h48, \h83, \hEC, \h14>>           \* sub rsp, 20
                   \o <<\h48, \h8D, \h7C, \h24, \h13>>     \* lea rdi, [rsp + 19]
                   \o <<\hC6, \h07, \h0A>>                 \* mov byte [rdi], 10
                   \o <<\h48, \hFF, \hCF>>                 \* dec rdi
        c2 == emit_print_sign(c1)
        c3 == c2 \o <<\h48, \hC7, \hC3, \h0A, \h00, \h00, \h00>>  \* mov rbx, 10
        c4 == emit_print_loop(c3)
    IN  c4 \o <<\h58>>                                     \* pop rax (flag)
           \o <<\h84, \hC0>>                               \* test al, al
           \o <<\h74, \h06>>                               \* jz .write
           \o <<\hC6, \h07, \h2D>>                         \* mov byte [rdi], '-'
           \o <<\h48, \hFF, \hCF>>                         \* dec rdi
           \o <<\h48, \hFF, \hC7>>                         \* .write: inc rdi
           \o <<\h48, \h8D, \h74, \h24, \h14>>             \* lea rsi, [rsp + 20]
           \o <<\h48, \h89, \hF2>>                         \* mov rdx, rsi
           \o <<\h48, \h29, \hFA>>                         \* sub rdx, rdi
           \o <<\h48, \h89, \hFE>>                         \* mov rsi, rdi
           \o <<\h48, \hC7, \hC0, \h01, \h00, \h00, \h00>> \* mov rax, 1
           \o <<\h48, \hC7, \hC7, \h01, \h00, \h00, \h00>> \* mov rdi, 1
           \o <<\h0F, \h05>>                               \* syscall
           \o <<\h48, \h83, \hC4, \h14>>                   \* add rsp, 20
           \o <<\h5A, \h59, \h5B>>                         \* pop rdx, rcx, rbx

\* An emit_return whose pop takes the value into rsi instead of rdi.
emit_return_rsi(code) ==
    code \o <<\h5E>>
         \o <<\h48, \hC7, \hC0, \h3C, \h00, \h00, \h00>>
         \o <<\h0F, \h05>>

emit_return(code) ==
    code \o <<\h5F>>                                       \* pop rdi
         \o <<\h48, \hC7, \hC0, \h3C, \h00, \h00, \h00>>   \* mov rax, 60
         \o <<\h0F, \h05>>                                 \* syscall

compile_instr(code, instr) ==
    CASE instr.op = "PushI32" -> emit_push_i32(code, instr.arg)
      [] instr.op = "Pop"     -> emit_pop_discard(code)
      [] instr.op = "Load"    -> emit_load(code, instr.arg)
      [] instr.op = "Store"   -> emit_store(code, instr.arg)
      [] instr.op = "Add"     -> emit_add(code)
      [] instr.op = "Sub"     -> emit_sub(code)
      [] instr.op = "Mul"     -> emit_mul(code)
      [] instr.op = "Div"     -> emit_div(code)
      [] instr.op = "Print"   -> emit_print(code)
      [] instr.op = "Ret"     -> emit_return(code)

\* The loop of compile_program over main's instructions, from instruction i on.
RECURSIVE compile_body(_, _, _)
compile_body(code, instrs, i) ==
    IF i > Len(instrs) THEN code
    ELSE compile_body(compile_instr(code, instrs[i]), instrs, i + 1)

\* The closing sequence compile_program appends: xor edi, edi; mov rax, 60; syscall.
emit_exit0(code) ==
    code \o <<\h31, \hFF>>
         \o <<\h48, \hC7, \hC0, \h3C, \h00, \h00, \h00>>
         \o <<\h0F, \h05>>

\* A compile_program that appends no closing exit sequence.
compile_code_no_exit(code, main_func) ==
    compile_body(emit_prologue(code, main_func.n_locals), main_func.code, 1)

\* self.code after compile_program's emission for `main_func`, starting from
\* the buffer the Compiler value already holds.
compile_code(code, main_func) ==
    emit_exit0(compile_body(emit_prologue(code, main_func.n_locals),
                            main_func.code, 1))

(***************************************************************************)
(* elfgen.rs: the Image Builder                                            *)
(***************************************************************************)
BASE_VADDR == \h400000

OFF_PROG_HDR == \h40

OFF_CODE == \h1000

CODE_VADDR == BASE_VADDR + OFF_CODE

\* u16 / u32 / u64 ::to_le_bytes of a value below 2^31.
u16_le(v) == to_le_bytes(v, 2)
u32_le(v) == to_le_bytes(v, 4)
u64_le(v) == to_le_bytes(v, 4) \o <<0, 0, 0, 0>>

\* `while elf.len() < off { elf.push(0) }`
PadTo(elf, off) ==
    IF Len(elf) < off THEN elf \o [k \in 1..(off - Len(elf)) |-> 0] ELSE elf

elf_header ==
    <<\h7F, 69, 76, 70,                 \* EI_MAG: 0x7F 'E' 'L' 'F'
      \h02, \h01, \h01, \h00,           \* ELFCLASS64, little-endian, version, System V
      0, 0, 0, 0, 0, 0, 0, 0>>          \* EI_PAD
    \o u16_le(2) \o u16_le(\h3E) \o u32_le(1)   \* ET_EXEC, EM_X86_64, EV_CURRENT
    \o u64_le(CODE_VADDR)                       \* e_entry
    \o u64_le(OFF_PROG_HDR) \o u64_le(0)        \* e_phoff, e_shoff
    \o u32_le(0)                                \* e_flags
    \o u16_le(64) \o u16_le(56) \o u16_le(1)    \* e_ehsize, e_phentsize, e_phnum
    \o u16_le(0) \o u16_le(0) \o u16_le(0)      \* e_shentsize, e_shnum, e_shstrndx

\* A program header that declares the whole file as the segment's size.
program_header_whole(seglen) ==
    u32_le(1) \o u32_le(5)
    \o u64_le(OFF_CODE)
    \o u64_le(CODE_VADDR) \o u64_le(CODE_VADDR)
    \o u64_le(OFF_CODE + seglen) \o u64_le(OFF_CODE + seglen)
    \o u64_le(\h1000)

program_header(seglen) ==
    u32_le(1) \o u32_le(5)                      \* PT_LOAD, PF_R | PF_X
    \o u64_le(OFF_CODE)                         \* p_offset
    \o u64_le(CODE_VADDR) \o u64_le(CODE_VADDR) \* p_vaddr, p_paddr
    \o u64_le(seglen) \o u64_le(seglen)         \* p_filesz, p_memsz
    \o u64_le(\h1000)                           \* p_align

\* An image whose segment follows the program header at once.
elf_image_unpadded(code, data) ==
    PadTo(elf_header, OFF_PROG_HDR) \o program_header(Len(code \o data)) \o code \o data

\* The bytes generate_elf assembles in `elf` before it opens the file.
elf_image(code, data) ==
    LET segment == code \o data
        e1 == PadTo(elf_header, OFF_PROG_HDR)
        e2 == PadTo(e1 \o program_header(Len(segment)), OFF_CODE)
    IN  e2 \o segment

(***************************************************************************)
(* The file at out_path.  A permission mode is a number below 512.         *)
(***************************************************************************)
NoFile == [exists |-> FALSE, content |-> <<>>, mode |-> 0]

ModeBit(mode, i) == (mode \div (2 ^ i)) % 2

RECURSIVE AndNotFrom(_, _, _)
AndNotFrom(mode, mask, i) ==
    IF i > 8 THEN 0
    ELSE (IF ModeBit(mode, i) = 1 /\ ModeBit(mask, i) = 0 THEN 2 ^ i ELSE 0)
         + AndNotFrom(mode, mask, i + 1)

\* mode & ~mask, as open(2) applies the umask to the mode of a file it creates.
AndNot(mode, mask) == AndNotFrom(mode, mask, 0)

\* .mode(0o755)
CREATE_MODE == 493

\* OpenOptions::new().create(true).write(true).truncate(true).mode(0o755).open():
\* `ok` is whether the environment lets the open succeed (the directory exists,
\* the medium is writable); an existing file must be writable by its owner.
\* A created file gets the mode, less the umask; an existing one is truncated
\* and keeps the mode it has.
open_create_truncate(file, umask, ok) ==
    IF ~ok \/ (file.exists /\ ModeBit(file.mode, 7) = 0)
    THEN [err |-> TRUE, file |-> file]
    ELSE [err |-> FALSE,
          file |-> [exists |-> TRUE, content |-> <<>>,
                    mode |-> IF file.exists THEN file.mode
                             ELSE AndNot(CREATE_MODE, umask)]]

\* f.write_all(&elf): `cut` bytes reach the file before the medium fails;
\* cut = Len(elf) is the write that succeeds.
write_all(file, elf, cut) ==
    [err |-> cut < Len(elf),
     file |-> [file EXCEPT !.content = SubSeq(elf, 1, cut)]]

\* generate_elf from the opening of the file on: [ret, file].
write_image(file, umask, elf, ok, cut) ==
    LET o == open_create_truncate(file, umask, ok)
        w == write_all(o.file, elf, cut)
    IN  IF o.err THEN [ret |-> "Err", file |-> o.file]
        ELSE IF w.err THEN [ret |-> "Err", file |-> w.file]
        ELSE [ret |-> "Ok", file |-> w.file]

generate_elf(code, data, file, umask, ok, cut) ==
    write_image(file, umask, elf_image(code, data), ok, cut)

(***************************************************************************)
(* The produced image on the processor.  The machine state is a record:    *)
(*   code    the loaded segment, rip an offset into it (0 = first byte);   *)
(*   reg     rax, rcx, rdx, rbx, rsp, rbp, rsi, rdi (encoding order), each *)
(*           a word;  zf, sf the two flags the emitted branches read;      *)
(*   mem     the stack bytes written so far, keyed by their offset from    *)
(*           the initial stack pointer;  fill the value of the bytes never *)
(*           written: {} until one is read, then {g};                      *)
(*   out     the write system calls made;  halt, status how it ended.      *)
(***************************************************************************)
RAX == 0
RCX == 1
RDX == 2
RBX == 3
RSP == 4
RBP == 5
RSI == 6
RDI == 7

\* The stack pointer the kernel hands to the entry point: 0x00007FFFFFFFE000.
StackTop == <<0, 224, 255, 255, 255, 127, 0, 0>>

OutOfRange == 1000000

\* The signed value of a word when it fits 16 bits, OutOfRange otherwise.
SmallOf(w) ==
    IF \A k \in 3..8 : w[k] = 0 /\ w[2] < 128 THEN w[1] + 256 * w[2]
    ELSE IF \A k \in 3..8 : w[k] = 255 /\ w[2] >= 128
         THEN w[1] + 256 * w[2] - 65536
    ELSE OutOfRange

\* A stack address as an offset from StackTop.
Off(a) == SmallOf(Sub64(a, StackTop))

\* The values a byte may hold that the process has not written and that lies
\* at or above the initial stack pointer (argc, argv, envp).  Below the initial
\* stack pointer the kernel hands a new process zero bytes.
StackFill == {0, 255}

Halt(s, why) == [s EXCEPT !.halt = why]

Reg(s, r) == s.reg[r + 1]

SetReg(s, r, w) == [s EXCEPT !.reg[r + 1] = w]

SetFlags(s, w) == [s EXCEPT !.zf = IsZeroW(w), !.sf = SignBit(w)]

Unwritten(s, off, n) == \E k \in 0..(n - 1) : (off + k) \notin DOMAIN s.mem

\* n bytes read at offset off; an unwritten byte reads as zero below the
\* initial stack pointer and as the fill g at or above it.
RdBytes(s, g, off, n) ==
    [k \in 1..n |-> IF (off + k - 1) \in DOMAIN s.mem THEN s.mem[off + k - 1]
                    ELSE IF off + k - 1 < 0 THEN 0 ELSE g]

\* The state after a read of n bytes at off: the fill is now known if the
\* read met an unwritten byte at or above the initial stack pointer.
Touch(s, g, off, n) ==
    IF s.fill = {} /\ (\E k \in 0..(n - 1) : off + k >= 0 /\ (off + k) \notin DOMAIN s.mem)
    THEN [s EXCEPT !.fill = {g}] ELSE s

WrBytes(s, off, bytes) ==
    LET new == {off + k - 1 : k \in 1..Len(bytes)}
    IN  [s EXCEPT !.mem = [x \in (DOMAIN s.mem) \cup new |->
                             IF x \in new THEN bytes[x - off + 1] ELSE s.mem[x]]]

\* push w: rsp -= 8; [rsp] = w.
PushW(s, w) ==
    LET sp == Sub64(Reg(s, RSP), SignExtend32(8))
    IN  IF Off(sp) = OutOfRange THEN Halt(s, "segv")
        ELSE WrBytes(SetReg(s, RSP, sp), Off(sp), w)

\* pop r: r = [rsp]; rsp += 8.
PopR(s, g, r) ==
    LET sp == Reg(s, RSP)
        w  == RdBytes(s, g, Off(sp), 8)
        s1 == SetReg(Touch(s, g, Off(sp), 8), RSP, Add64(sp, SignExtend32(8)))
    IN  IF Off(sp) = OutOfRange THEN Halt(s, "segv") ELSE SetReg(s1, r, w)

\* Byte i (0-based) of the code, or -1 past its end.
CodeAt(s, i) == IF i >= 0 /\ i < Len(s.code) THEN s.code[i + 1] ELSE -1

CodeBytes(s, i, n) == [k \in 1..n |-> CodeAt(s, i + k - 1)]

HasBytes(s, i, n) == i >= 0 /\ i + n <= Len(s.code)

\* The ModRM byte at code offset p, with its SIB byte and displacement:
\* ok, mod, reg field, rm, the operand's address for a memory operand, and the
\* number of bytes the encoding takes.  Only [base + disp] forms are decoded.
ModRM(s, p) ==
    LET b    == CodeAt(s, p)
        mod  == b \div 64
        regf == (b \div 8) % 8
        rm   == b % 8
        sib  == mod # 3 /\ rm = 4
        base == IF sib THEN RSP ELSE rm
        q    == IF sib THEN p + 2 ELSE p + 1
        dlen == CASE mod = 1 -> 1 [] mod = 2 -> 4 [] OTHER -> 0
        disp == CASE mod = 1 -> FromS8(CodeAt(s, q))
                  [] mod = 2 -> FromLE32(CodeBytes(s, q, 4))
                  [] OTHER   -> 0
        bad  == \/ b < 0
                \/ (sib /\ CodeAt(s, p + 1) # \h24)
                \/ (mod = 0 /\ rm = 5)
                \/ ~HasBytes(s, p, (q - p) + dlen)
    IN  [ok |-> ~bad, mod |-> mod, regf |-> regf, rm |-> rm,
         addr |-> IF bad \/ mod = 3 THEN ZeroWord
                  ELSE Add64(Reg(s, base), SignExtend32(disp)),
         n |-> (q - p) + dlen]

\* The low byte of rax..rbx (al, cl, dl, bl) or their second byte (ah..bh).
Reg8(s, r) == IF r < 4 THEN Reg(s, r)[1] ELSE Reg(s, r - 4)[2]

SetReg8(s, r, b) ==
    IF r < 4 THEN [s EXCEPT !.reg[r + 1][1] = b]
    ELSE [s EXCEPT !.reg[r - 3][2] = b]

At(s, n) == [s EXCEPT !.rip = s.rip + n]

\* A relative branch of the 2-byte form: taken or not.
Branch(s, taken) ==
    IF ~HasBytes(s, s.rip, 2) THEN Halt(s, "ranoff")
    ELSE At(s, 2 + (IF taken THEN FromS8(CodeAt(s, s.rip + 1)) ELSE 0))

\* write(fd, buf, count) and exit(status); any other number is ENOSYS.  The
\* syscall instruction leaves the return address in rcx.
MaxWrite == 64

Syscall(s, g) ==
    LET nr   == SmallOf(Reg(s, RAX))
        fd   == SmallOf(Reg(s, RDI))
        buf  == Off(Reg(s, RSI))
        cnt  == SmallOf(Reg(s, RDX))
        s1   == SetReg(At(s, 2), RCX, SignExtend32(CODE_VADDR + s.rip + 2))
        good == buf # OutOfRange /\ cnt >= 0 /\ cnt <= MaxWrite
    IN  CASE nr = 60 -> [s EXCEPT !.halt = "exit", !.status = Reg(s, RDI)[1]]
          [] nr = 1 /\ good ->
                [SetReg(Touch(s1, g, buf, cnt), RAX, SignExtend32(cnt))
                    EXCEPT !.out = Append(@, [fd |-> fd, buf |-> buf, len |-> cnt,
                                              bytes |-> RdBytes(s, g, buf, cnt)])]
          [] nr = 1 /\ ~good -> SetReg(s1, RAX, SignExtend32(-14))
          [] OTHER -> SetReg(s1, RAX, SignExtend32(-38))

\* Signed (rdx:rax) / d as idiv computes it: [de, q, r], de for the divide
\* error (d = 0, or a quotient outside the signed 64-bit range).
IDivMod(hi, lo, d) ==
    LET negn == SignBit(hi)
        negd == SignBit(d)
        nlo  == IF negn THEN Neg64(lo) ELSE lo
        nhi  == IF negn
                THEN (IF IsZeroW(lo) THEN Neg64(hi) ELSE NotW(hi))
                ELSE hi
        md   == IF negd THEN Neg64(d) ELSE d
        over == ~ULess(nhi, md)
        u    == UDivMod(nhi, nlo, md)
        qneg == negn # negd
        \* the magnitude must fit: below 2^63, or exactly 2^63 for a negative quotient
        big  == SignBit(u.q) /\ ~(qneg /\ u.q = <<0, 0, 0, 0, 0, 0, 0, 128>>)
    IN  IF IsZeroW(d) \/ over \/ big
        THEN [de |-> TRUE, q |-> ZeroWord, r |-> ZeroWord]
        ELSE [de |-> FALSE,
              q |-> IF qneg THEN Neg64(u.q) ELSE u.q,
              r |-> IF negn THEN Neg64(u.r) ELSE u.r]

\* Instructions that start with the REX.W prefix 48: 64-bit operands.
ExecRexW(s, g) ==
    LET op  == CodeAt(s, s.rip + 1)
        mr  == ModRM(s, s.rip + 2)
        isr == mr.ok /\ mr.mod = 3
        ism == mr.ok /\ mr.mod # 3
        a   == Off(mr.addr)
        nx  == At(s, 2 + mr.n)
        rmv == Reg(s, mr.rm)
        rgv == Reg(s, mr.regf)
        im8  == SignExtend32(FromS8(CodeAt(s, s.rip + 2 + mr.n)))
        im32 == SignExtend32(FromLE32(CodeBytes(s, s.rip + 2 + mr.n, 4)))
    IN  CASE op = \h99 ->                                       \* cqo
               SetReg(At(s, 2), RDX,
                      IF SignBit(Reg(s, RAX)) THEN NotW(ZeroWord) ELSE ZeroWord)
          [] op = \h89 /\ isr -> SetReg(nx, mr.rm, rgv)          \* mov r/m64, r64
          [] op = \h89 /\ ism ->
               IF a = OutOfRange THEN Halt(s, "segv") ELSE WrBytes(nx, a, rgv)
          [] op = \h8B /\ isr -> SetReg(nx, mr.regf, rmv)        \* mov r64, r/m64
          [] op = \h8B /\ ism ->
               IF a = OutOfRange THEN Halt(s, "segv")
               ELSE SetReg(Touch(nx, g, a, 8), mr.regf, RdBytes(s, g, a, 8))
          [] op = \h8D /\ ism -> SetReg(nx, mr.regf, mr.addr)    \* lea r64, m
          [] op = \h01 /\ isr ->                                 \* add r/m64, r64
               LET v == Add64(rmv, rgv) IN SetFlags(SetReg(nx, mr.rm, v), v)
          [] op = \h29 /\ isr ->                                 \* sub r/m64, r64
               LET v == Sub64(rmv, rgv) IN SetFlags(SetReg(nx, mr.rm, v), v)
          [] op = \h31 /\ isr /\ mr.rm = mr.regf ->                \* xor r64, r64
               SetFlags(SetReg(nx, mr.rm, ZeroWord), ZeroWord)
          [] op = \h85 /\ isr /\ mr.rm = mr.regf -> SetFlags(nx, rmv)  \* test r, r
          [] op = \h83 /\ isr /\ mr.regf \in {0, 5} /\ HasBytes(s, s.rip, 4) ->
               LET v == IF mr.regf = 0 THEN Add64(rmv, im8) ELSE Sub64(rmv, im8)
               IN  SetFlags(SetReg(At(nx, 1), mr.rm, v), v)      \* add/sub r/m64, imm8
          [] op = \h81 /\ isr /\ mr.regf \in {0, 5} /\ HasBytes(s, s.rip, 7) ->
               LET v == IF mr.regf = 0 THEN Add64(rmv, im32) ELSE Sub64(rmv, im32)
               IN  SetFlags(SetReg(At(nx, 4), mr.rm, v), v)      \* add/sub r/m64, imm32
          [] op = \hC7 /\ isr /\ mr.regf = 0 /\ HasBytes(s, s.rip, 7) ->
               SetReg(At(nx, 4), mr.rm, im32)                    \* mov r/m64, imm32
          [] op = \hFF /\ isr /\ mr.regf = 0 ->                  \* inc r/m64
               LET v == Add64(rmv, SignExtend32(1)) IN SetFlags(SetReg(nx, mr.rm, v), v)
          [] op = \hFF /\ isr /\ mr.regf = 1 ->                  \* dec r/m64
               LET v == Sub64(rmv, SignExtend32(1)) IN SetFlags(SetReg(nx, mr.rm, v), v)
          [] op = \hF7 /\ isr /\ mr.regf = 3 ->                  \* neg r/m64
               LET v == Neg64(rmv) IN SetFlags(SetReg(nx, mr.rm, v), v)
          [] op = \hF7 /\ isr /\ mr.regf = 6 ->                  \* div r/m64
               IF IsZeroW(rmv) \/ ~ULess(Reg(s, RDX), rmv) THEN Halt(s, "sigfpe")
               ELSE LET u == UDivMod(Reg(s, RDX), Reg(s, RAX), rmv)
                    IN  SetReg(SetReg(nx, RAX, u.q), RDX, u.r)
          [] op = \hF7 /\ isr /\ mr.regf = 7 ->                  \* idiv r/m64
               LET u == IDivMod(Reg(s, RDX), Reg(s, RAX), rmv)
               IN  IF u.de THEN Halt(s, "sigfpe")
                   ELSE SetReg(SetReg(nx, RAX, u.q), RDX, u.r)
          [] op = \h0F /\ CodeAt(s, s.rip + 2) = \hAF ->         \* imul r64, r/m64
               LET m2 == ModRM(s, s.rip + 3)
               IN  IF m2.ok /\ m2.mod = 3
                   THEN SetReg(At(s, 3 + m2.n), m2.regf,
                               Mul64(Reg(s, m2.regf), Reg(s, m2.rm)))
                   ELSE Halt(s, "illegal")
          [] OTHER -> Halt(s, IF HasBytes(s, s.rip, 3) THEN "illegal" ELSE "ranoff")

\* Instructions without a prefix.
ExecPlain(s, g) ==
    LET op  == CodeAt(s, s.rip)
        mr  == ModRM(s, s.rip + 1)
        isr == mr.ok /\ mr.mod = 3
        ism == mr.ok /\ mr.mod # 3
        a   == Off(mr.addr)
        nx  == At(s, 1 + mr.n)
        ib  == CodeAt(s, s.rip + 1 + mr.n)
    IN  CASE op >= \h50 /\ op <= \h57 -> PushW(At(s, 1), Reg(s, op - \h50))
          [] op >= \h58 /\ op <= \h5F -> PopR(At(s, 1), g, op - \h58)
          [] op = \h68 /\ HasBytes(s, s.rip, 5) ->               \* push imm32
               PushW(At(s, 5), SignExtend32(FromLE32(CodeBytes(s, s.rip + 1, 4))))
          [] op = \h6A /\ HasBytes(s, s.rip, 2) ->               \* push imm8
               PushW(At(s, 2), SignExtend32(FromS8(CodeAt(s, s.rip + 1))))
          [] op = \h74 -> Branch(s, s.zf)                        \* jz
          [] op = \h75 -> Branch(s, ~s.zf)                       \* jnz
          [] op = \h79 -> Branch(s, ~s.sf)                       \* jns
          [] op = \hEB -> Branch(s, TRUE)                        \* jmp
          [] op = \h0F /\ CodeAt(s, s.rip + 1) = \h05 -> Syscall(s, g)
          [] op = \h31 /\ isr /\ mr.rm = mr.regf ->              \* xor r32, r32
               SetFlags(SetReg(nx, mr.rm, ZeroWord), ZeroWord)
          [] op = \hFF /\ ism /\ mr.regf = 6 ->                  \* push r/m64
               IF a = OutOfRange THEN Halt(s, "segv")
               ELSE PushW(Touch(nx, g, a, 8), RdBytes(s, g, a, 8))
          [] op = \hC6 /\ ism /\ mr.regf = 0 /\ ib >= 0 ->       \* mov r/m8, imm8
               IF a = OutOfRange THEN Halt(s, "segv") ELSE WrBytes(At(nx, 1), a, <<ib>>)
          [] op = \h88 /\ ism ->                                 \* mov r/m8, r8
               IF a = OutOfRange THEN Halt(s, "segv")
               ELSE WrBytes(nx, a, <<Reg8(s, mr.regf)>>)
          [] op = \h84 /\ isr /\ mr.rm = mr.regf ->              \* test r8, r8
               [nx EXCEPT !.zf = Reg8(s, mr.rm) = 0, !.sf = Reg8(s, mr.rm) >= 128]
          [] op = \h80 /\ isr /\ mr.regf = 0 /\ ib >= 0 ->       \* add r/m8, imm8
               LET v == (Reg8(s, mr.rm) + ib) % 256
               IN  [SetReg8(At(nx, 1), mr.rm, v) EXCEPT !.zf = v = 0, !.sf = v >= 128]
          [] OTHER -> Halt(s, IF HasBytes(s, s.rip, 2) THEN "illegal" ELSE "ranoff")

\* One instruction: fetch at rip, decode, execute.  Running past the last byte
\* of the code buffer is its own way to stop.
Exec(s, g) ==
    IF ~HasBytes(s, s.rip, 1) THEN Halt(s, "ranoff")
    ELSE IF CodeAt(s, s.rip) = \h48 THEN ExecRexW(s, g)
    ELSE ExecPlain(s, g)

\* The process as execve leaves it: the segment mapped, rip at the entry point,
\* the general registers zero, rsp at the top of the stack.
Loaded(segment, entry) ==
    [code |-> segment, rip |-> entry,
     reg |-> [r \in 1..8 |-> IF r = RSP + 1 THEN StackTop ELSE ZeroWord],
     zf |-> FALSE, sf |-> FALSE,
     mem |-> [x \in {} |-> 0], fill |-> {},
     out |-> <<>>, halt |-> "run", status |-> 0]

(***************************************************************************)
(* codegen.rs: the front end.  Expressions and statements are records;     *)
(* every emit_* returns the state it threads: the environment, the IR so   *)
(* far, and whether it panicked.                                           *)
(***************************************************************************)
Number(n)     == [e |-> "Number", n |-> n]
Ident(name)   == [e |-> "Ident", name |-> name]
BuiltinPrint(arg) == [e |-> "Print", arg |-> arg]
BuiltinInput  == [e |-> "Input"]

NoExpr == [e |-> "None"]

VarDecl(name, value)   == [s |-> "VarDecl", name |-> name, value |-> value]
ConstDecl(name, value) == [s |-> "ConstDecl", name |-> name, value |-> value]
Assign(name, value)    == [s |-> "Assign", name |-> name, value |-> value]
ExprStmt(e)            == [s |-> "Expr", name |-> "", value |-> e]
Return(opt)            == [s |-> "Return", name |-> "", value |-> opt]

LocalEnvDefault == [map |-> [x \in {} |-> 0], names |-> <<>>, next |-> 0]

lookup(env, name) == IF name \in DOMAIN env.map THEN env.map[name] ELSE -1

\* An alloc that never looks the name up: every call takes a new slot.
alloc_fresh(env, name) ==
    [env |-> [map   |-> [x \in (DOMAIN env.map) \cup {name} |->
                           IF x = name THEN env.next ELSE env.map[x]],
              names |-> Append(env.names, name),
              next  |-> env.next + 1],
     idx |-> env.next]

\* LocalEnv::alloc: [env, idx].
alloc(env, name) ==
    IF name \in DOMAIN env.map THEN [env |-> env, idx |-> env.map[name]]
    ELSE [env |-> [map   |-> [x \in (DOMAIN env.map) \cup {name} |->
                                IF x = name THEN env.next ELSE env.map[x]],
                   names |-> Append(env.names, name),
                   next  |-> env.next + 1],
          idx |-> env.next]

\* `*n as i32` for the literals of the model, all below 2^31.
AsI32(n) == n

RECURSIVE emit_expr(_, _, _, _)
emit_expr(e, env, globals, code) ==
    CASE e.e = "Number" -> [code |-> Append(code, PushI32(AsI32(e.n))), panic |-> FALSE]
      [] e.e = "Ident" ->
            IF lookup(env, e.name) >= 0
            THEN [code |-> Append(code, Load(lookup(env, e.name))), panic |-> FALSE]
            ELSE IF e.name \in DOMAIN globals
            THEN [code |-> Append(code, PushI32(globals[e.name])), panic |-> FALSE]
            ELSE [code |-> code, panic |-> TRUE]
      [] e.e = "Print" ->
            LET a == emit_expr(e.arg, env, globals, code)
            IN  [code |-> Append(a.code, PrintOp), panic |-> a.panic]
      [] e.e = "Input" -> [code |-> Append(code, PushI32(0)), panic |-> FALSE]
      [] OTHER -> [code |-> code, panic |-> TRUE]

emit_stmt(st, env, globals, code) ==
    CASE st.s \in {"VarDecl", "ConstDecl"} ->
            LET al == alloc(env, st.name)
                v  == IF st.value = NoExpr
                      THEN [code |-> Append(code, PushI32(0)), panic |-> FALSE]
                      ELSE emit_expr(st.value, al.env, globals, code)
            IN  [env |-> al.env, code |-> Append(v.code, Store(al.idx)), panic |-> v.panic]
      [] st.s = "Assign" ->
            LET v == emit_expr(st.value, env, globals, code)
            IN  [env |-> env, code |-> Append(v.code, Store(lookup(env, st.name))),
                 panic |-> v.panic \/ lookup(env, st.name) < 0]
      [] st.s = "Expr" ->
            LET v == emit_expr(st.value, env, globals, code)
            IN  [env |-> env, code |-> Append(v.code, Pop), panic |-> v.panic]
      [] st.s = "Return" ->
            LET v == IF st.value = NoExpr THEN [code |-> code, panic |-> FALSE]
                     ELSE emit_expr(st.value, env, globals, code)
            IN  [env |-> env, code |-> Append(v.code, Ret), panic |-> v.panic]
      [] OTHER -> [env |-> env, code |-> code, panic |-> TRUE]

RECURSIVE emit_block(_, _, _, _, _)
emit_block(stmts, i, env, globals, code) ==
    IF i > Len(stmts) THEN [env |-> env, code |-> code, panic |-> FALSE]
    ELSE LET r == emit_stmt(stmts[i], env, globals, code)
         IN  IF r.panic THEN r
             ELSE emit_block(stmts, i + 1, r.env, globals, r.code)

RECURSIVE alloc_params(_, _, _)
alloc_params(env, params, i) ==
    IF i > Len(params) THEN env
    ELSE alloc_params(alloc(env, params[i]).env, params, i + 1)

\* compile_func: [func, panic].
compile_func(f, globals) ==
    LET env == alloc_params(LocalEnvDefault, f.params, 1)
        b   == emit_block(f.body, 1, env, globals, <<>>)
    IN  [func |-> Func(f.name, Append(b.code, Ret), b.env.next), panic |-> b.panic]

FuncDef(name, params, body) ==
    [d |-> "Func", name |-> name, params |-> params, body |-> body, value |-> NoExpr]

TopConst(name, value) ==
    [d |-> "Const", name |-> name, params |-> <<>>, body |-> <<>>, value |-> value]

\* Codegen::compile: the globals are the top-level consts with a literal value;
\* every Func declaration is compiled, in order.  [ir, panic].
compile(program) ==
    LET ds      == program.decls
        consts  == {i \in 1..Len(ds) : ds[i].d = "Const" /\ ds[i].value.e = "Number"}
        gnames  == {ds[i].name : i \in consts}
        globals == [x \in gnames |->
                      LET last == CHOOSE i \in consts :
                                     /\ ds[i].name = x
                                     /\ \A j \in consts : ds[j].name = x => j <= i
                      IN  AsI32(ds[last].value.n)]
        fidx    == {i \in 1..Len(ds) : ds[i].d = "Func"}
        nth(k)  == CHOOSE i \in fidx : Cardinality({j \in fidx : j < i}) = k - 1
        out     == [k \in 1..Cardinality(fidx) |-> compile_func(ds[nth(k)], globals)]
    IN  [ir |-> [funcs |-> [k \in 1..Len(out) |-> out[k].func]],
         panic |-> \E k \in 1..Len(out) : out[k].panic]

(***************************************************************************)
(* vm.rs: the interpreter's binary operations on its stack of i32          *)
(***************************************************************************)
\* The range of i32.
I32_MIN == -2147483647 - 1

I32_MAX == 2147483647

\* `a / b` on i32, for b # 0 and a quotient that is an i32: the integer
\* quotient, rounded toward zero.
vm_div(a, b) ==
    CASE b = I32_MIN -> IF a = I32_MIN THEN 1 ELSE 0
      [] a = I32_MIN /\ b # I32_MIN ->
            LET d == IF b < 0 THEN -b ELSE b
                q == (I32_MAX \div d) + (IF I32_MAX % d = d - 1 THEN 1 ELSE 0)
            IN  IF b > 0 THEN -q ELSE q
      [] a >= 0 /\ b > 0 -> a \div b
      [] a >= 0 /\ b < 0 /\ b # I32_MIN -> -(a \div (-b))
      [] a < 0 /\ a # I32_MIN /\ b > 0 -> -((-a) \div b)
      [] a < 0 /\ a # I32_MIN /\ b < 0 /\ b # I32_MIN -> (-a) \div (-b)

\* Whether `a o b` on i32 leaves the range of i32 (b # 0 for Div).
Overflows(o, a, b) ==
    CASE o = Add -> (b > 0 /\ a > I32_MAX - b) \/ (b < 0 /\ a < I32_MIN - b)
      [] o = Sub -> (b < 0 /\ a > I32_MAX + b) \/ (b > 0 /\ a < I32_MIN + b)
      [] o = Mul ->
            IF a = 0 \/ b = 0 THEN FALSE
            ELSE IF a = I32_MIN THEN b # 1
            ELSE IF b = I32_MIN THEN a # 1
            ELSE LET x == IF a < 0 THEN -a ELSE a
                     y == IF b < 0 THEN -b ELSE b
                     lim == I32_MAX \div y
                 IN  IF (a < 0) = (b < 0) THEN x > lim
                     ELSE x > lim + (IF I32_MAX % y = y - 1 THEN 1 ELSE 0)
      [] o = Div -> a = I32_MIN /\ b = -1

\* The closure VM::run hands to bin for the instruction o, applied to a, b.
Applied(o, a, b) ==
    CASE o = Add -> a + b
      [] o = Sub -> a - b
      [] o = Mul -> a * b
      [] o = Div -> vm_div(a, b)

\* bin, with the closure of the instruction o: pop the right operand, pop the
\* left one, push f(a, b).
bin(stack, o) ==
    LET b == stack[Len(stack)]
        a == stack[Len(stack) - 1]
    IN  Append(SubSeq(stack, 1, Len(stack) - 2), Applied(o, a, b))

\* VM::run, one instruction at a time.  halt is "run" while the loop goes on,
\* "ret" after a Ret, "panic" after an expect or an index out of bounds or a
\* division by zero, and "overflow" where i32 arithmetic leaves its range (a
\* panic or a wrapped value, as the build has it).
vm_new(main) ==
    [stack |-> <<>>, locals |-> [i \in 1..main.n_locals |-> 0], ip |-> 0,
     halt |-> "run", ret |-> 0]

vm_pop(stack) == SubSeq(stack, 1, Len(stack) - 1)

vm_step(main, v) ==
    LET i  == main.code[v.ip + 1]
        n  == Len(v.stack)
        nx == [v EXCEPT !.ip = @ + 1]
    IN  CASE i.op = "PushI32" -> [nx EXCEPT !.stack = Append(@, i.arg)]
          [] i.op = "Pop" -> [nx EXCEPT !.stack = vm_pop(@)]
          [] i.op = "Load" ->
                IF i.arg >= main.n_locals THEN [v EXCEPT !.halt = "panic"]
                ELSE [nx EXCEPT !.stack = Append(@, v.locals[i.arg + 1])]
          [] i.op = "Store" ->
                IF n = 0 \/ i.arg >= main.n_locals THEN [v EXCEPT !.halt = "panic"]
                ELSE [nx EXCEPT !.stack = vm_pop(@), !.locals[i.arg + 1] = v.stack[n]]
          [] i.op \in {"Add", "Sub", "Mul", "Div"} ->
                IF n < 2 \/ (i.op = "Div" /\ v.stack[n] = 0) THEN [v EXCEPT !.halt = "panic"]
                ELSE IF Overflows(i, v.stack[n - 1], v.stack[n])
                THEN [v EXCEPT !.halt = "overflow"]
                ELSE [nx EXCEPT !.stack = bin(v.stack, i)]
          [] i.op = "Print" ->
                IF n = 0 THEN [v EXCEPT !.halt = "panic"]
                ELSE [nx EXCEPT !.stack = vm_pop(@)]
          [] i.op = "Ret" ->
                [v EXCEPT !.halt = "ret", !.ret = IF n = 0 THEN 0 ELSE v.stack[n],
                          !.stack = vm_pop(@)]

\* The interpreter after its first k instructions, or where it stopped.
RECURSIVE vm_after(_, _)
vm_after(main, k) ==
    IF k = 0 THEN vm_new(main)
    ELSE LET v == vm_after(main, k - 1)
         IN  IF v.halt # "run" \/ v.ip >= Len(main.code) THEN v ELSE vm_step(main, v)

\* What VM::run returns: the Ret's value, or 0 when the loop ends.
vm_run(main) == vm_after(main, Len(main.code)).ret

(***************************************************************************)
(* The programs of the model                                               *)
(***************************************************************************)
\* Statements per main body.
MaxStmts == 3

\* The statements a main body is made of.  print(n) reads the top-level const.
StmtAlphabet ==
    { VarDecl("x", Number(10)),
      ExprStmt(BuiltinPrint(Ident("x"))),
      ExprStmt(BuiltinPrint(Ident("n"))),
      Return(Number(0)),
      Return(NoExpr) }

Blocks == UNION {[1..k -> StmtAlphabet] : k \in 0..MaxStmts}

\* The shape of the sample in main.rs: a top-level const, then main.
SourceProgram(body) ==
    [decls |-> <<TopConst("n", Number(5)), FuncDef("main", <<>>, body)>>]

MainOnly(code, n_locals) == [funcs |-> <<Func("main", code, n_locals)>>]

\* Values handed to Print through a literal.
PrintValues == {0, -1, 7, I32_MAX, I32_MIN}

\* The highest slot index of the model; offsets up to 128 take the one-byte
\* displacement, so slot 15 is the last of the short tier.
MaxSlot == 16

\* Frame sizes: none, one slot, and both sides of the imm8 / imm32 boundary.
LocalCounts == {0, 1} \cup (15..(MaxSlot + 1))

SlotIndexes == {0} \cup (14..MaxSlot)

\* A main with no instruction: prologue and closing sequence only.
FramePrograms == {MainOnly(<<>>, n) : n \in LocalCounts}

\* Store to slot i, store to another slot j, load slot i, return it.
SlotPrograms ==
    {MainOnly(<<PushI32(42), Store(ij[1]), PushI32(9), Store(ij[2]), Load(ij[1]), Ret>>,
              MaxSlot + 1) :
        ij \in {x \in SlotIndexes \X SlotIndexes : x[1] # x[2]}}

Operands == {10, 3, -7, 2, -3}

BinOps == {Add, Sub, Mul, Div}

\* a pushed first, b second, one binary operation, return.
ArithPrograms ==
    {MainOnly(<<PushI32(a), PushI32(b), o, Ret>>, 0) :
        a \in Operands, b \in Operands, o \in BinOps}

\* The largest magnitude of a dividend.
MaxOperand == 10

Dividends == (-MaxOperand)..MaxOperand

Divisors == (-3..3) \ {0}

DivPrograms ==
    {MainOnly(<<PushI32(a), PushI32(b), Div, Ret>>, 0) : a \in Dividends, b \in Divisors}

\* Operands whose sum, difference, product and quotient leave the 32-bit range.
WidePrograms ==
    {MainOnly(<<PushI32(I32_MAX), PushI32(I32_MIN), o, Ret>>, 0) : o \in BinOps}
    \cup {MainOnly(<<PushI32(I32_MIN), PushI32(-1), Div, Ret>>, 0)}

\* Mains that use slots before and after storing to them, discard a word,
\* return a value outside 0..255, and end without a Ret.
RefinePrograms ==
    { MainOnly(<<Load(0), Ret>>, 1),
      MainOnly(<<PushI32(5), Store(1), Load(0), Load(1), Sub, Ret>>, 2),
      MainOnly(<<PushI32(-300), PushI32(7), Pop, Ret>>, 0),
      MainOnly(<<PushI32(6), PushI32(7), Mul, PushI32(-5), Div>>, 0),
      MainOnly(<<PushI32(3), Store(0), Load(0), Load(0), Mul, Store(0), Load(0), Ret>>, 1) }

\* IR programs handed to the back end directly.
DirectIR ==
    {MainOnly(<<PushI32(v), PrintOp>>, 0) : v \in PrintValues}
    \cup {MainOnly(<<PushI32(I32_MIN), PushI32(I32_MIN), Mul, PushI32(2), Mul, PrintOp>>, 0)}
    \cup {MainOnly(<<PushI32(a), PushI32(b), Div, Ret>>, 0) : a \in {7, -7}, b \in {0, 2}}
    \cup {MainOnly(<<PushI32(I32_MIN), PushI32(I32_MIN), Mul, PushI32(2), Mul,
                     PushI32(-1), Div, Ret>>, 0)}
    \cup {MainOnly(<<Load(n)>>, n) : n \in {0, 1}}
    \cup {MainOnly(<<PushI32(3), Store(n), Ret>>, n) : n \in {0, 1}}
    \cup FramePrograms \cup SlotPrograms \cup ArithPrograms \cup WidePrograms \cup DivPrograms
    \cup RefinePrograms

\* Literals returned by `return k;`.
ReturnValues == 0..255

ReturnBlocks == {<<Return(Number(k))>> : k \in ReturnValues}

Sourced ==
    {[origin |-> [kind |-> "src", body |-> b], ir |-> compile(SourceProgram(b)).ir] :
        b \in {c \in Blocks \cup ReturnBlocks : ~compile(SourceProgram(c)).panic}}

Direct == {[origin |-> [kind |-> "ir", body |-> <<>>], ir |-> p] : p \in DirectIR}

RunPrograms == Sourced \cup Direct

MainOf(p) == p.funcs[main_index(p)]

(***************************************************************************)
(* Loading: what execve reads from the image.                              *)
(***************************************************************************)
LoadImage(image) ==
    LET e_entry  == FromLE32(SubSeq(image, 25, 28))
        p_offset == FromLE32(SubSeq(image, OFF_PROG_HDR + 9, OFF_PROG_HDR + 12))
        p_vaddr  == FromLE32(SubSeq(image, OFF_PROG_HDR + 17, OFF_PROG_HDR + 20))
        p_filesz == FromLE32(SubSeq(image, OFF_PROG_HDR + 33, OFF_PROG_HDR + 36))
    IN  Loaded(SubSeq(image, p_offset + 1, p_offset + p_filesz), e_entry - p_vaddr)

(***************************************************************************)
(* Running a built image                                                   *)
(***************************************************************************)
\* Whether the instruction at rip is one that reads data memory.
MayRead(s) ==
    LET b == CodeAt(s, s.rip)
    IN  \/ (b >= \h58 /\ b <= \h5F)
        \/ b \in {\hFF, \h0F}
        \/ (b = \h48 /\ CodeAt(s, s.rip + 1) = \h8B)

Fills(s) == IF s.fill # {} THEN s.fill ELSE IF MayRead(s) THEN StackFill ELSE {0}

\* The state of a fresh Compiler after compile_program emitted p's main.
Built(p) == [code |-> compile_code(<<>>, MainOf(p)), data |-> <<>>]

InitRun ==
    \E p \in RunPrograms :
        /\ prog = p.ir
        /\ origin = p.origin
        /\ compiler = Built(p.ir)
        /\ m = LoadImage(elf_image(Built(p.ir).code, Built(p.ir).data))
        /\ fs = NoFile
        /\ ret = "Ok"
        /\ hist = <<>>

Step ==
    /\ m.halt = "run"
    /\ \E g \in Fills(m) : m' = Exec(m, g)
    /\ UNCHANGED <<prog, origin, compiler, fs, ret, hist>>

NextRun == Step

SpecRun == InitRun /\ [][NextRun]_vars

\* Every step changes m (rip moves or the process halts), so Step is
\* enabled exactly while the process runs.
StepEnabled == m.halt = "run"

\* The processor keeps executing while the process runs: weak fairness of
\* Step, with ENABLED <<Step>>_vars written as StepEnabled.
SpecRunFair == SpecRun /\ ([]<>(~StepEnabled) \/ []<><<Step>>_vars)

\* Step never leaves the machine as it was.
StepChangesMachine == [][Step => m' # m]_vars

(***************************************************************************)
(* Building: compile_program on a Compiler value, and the driver's         *)
(* compile_to_binary, which makes a new Compiler for each build.           *)
(***************************************************************************)
\* Builds per behaviour.
MaxBuilds == 2

Compiler_new == [code |-> <<>>, data |-> <<>>]

\* What a file held before the build, when there was one.
OldContent == <<1, 2, 3>>

\* rw-r--r--, rwxr-xr-x, r--r--r--
FileModes == {420, 493, 292}

InitialFiles ==
    {NoFile} \cup {[exists |-> TRUE, content |-> OldContent, mode |-> md] : md \in FileModes}

\* 022 and 077
Umasks == {18, 63}

BuildPrograms ==
    { [funcs |-> <<Func("helper", <<PushI32(1), Ret>>, 0)>>],
      MainOnly(<<PushI32(7), Ret>>, 0),
      [funcs |-> <<Func("helper", <<Ret>>, 0), Func("main", <<PushI32(0), Ret>>, 1)>>],
      MainOnly(<<Load(0), Ret>>, 0),
      MainOnly(<<PushI32(1), Store(2), Ret>>, 2) }

\* How the medium may treat one build: the open refused, or the write cut
\* short after `cut` bytes: none, the headers and their padding, or all of
\* them (cut = len: nothing fails).
IoOutcomes(len) ==
    {[ok |-> FALSE, cut |-> 0]}
    \cup {[ok |-> TRUE, cut |-> c] : c \in {0, OFF_CODE, len}}

\* compile_program(prog, out_path) on the Compiler value c: the new Compiler
\* value, the value returned ("panic" for the failed expect) and the file.
compile_program(c, p, file, umask, io) ==
    IF main_index(p) = 0
    THEN [compiler |-> c, ret |-> "panic", file |-> file]
    ELSE LET code == compile_code(c.code, p.funcs[main_index(p)])
             g    == generate_elf(code, c.data, file, umask, io.ok, io.cut)
         IN  [compiler |-> [c EXCEPT !.code = code], ret |-> g.ret, file |-> g.file]

\* The image the call assembles in memory.
ImageOf(c, p) == elf_image(compile_code(c.code, p.funcs[main_index(p)]), c.data)

ImageLen(c, p) == IF main_index(p) = 0 THEN 0 ELSE Len(ImageOf(c, p))

\* A driver that keeps one Compiler value across builds.
driver_compiler_kept(held) == held

\* The Compiler value the driver hands to compile_program: always a new one.
driver_compiler(held) == Compiler_new

InitBuild ==
    /\ prog \in BuildPrograms
    /\ origin = [kind |-> "ir", body |-> <<>>]
    /\ compiler = Compiler_new
    /\ \E f \in InitialFiles, u \in Umasks : fs = [file |-> f, umask |-> u]
    /\ ret = "none"
    /\ hist = <<>>
    /\ m = Loaded(<<>>, 0)

\* One build with the Compiler value c, recorded in hist.
BuildWith(c, via) ==
    /\ ret # "panic"
    /\ Len(hist) < MaxBuilds
    /\ \E io \in IoOutcomes(ImageLen(c, prog)) :
          LET r == compile_program(c, prog, fs.file, fs.umask, io)
          IN  /\ compiler' = r.compiler
              /\ ret' = r.ret
              /\ fs' = [fs EXCEPT !.file = r.file]
              /\ hist' = Append(hist, [via |-> via, ret |-> r.ret, code |-> r.compiler.code,
                                       before |-> fs.file, after |-> r.file])
    /\ UNCHANGED <<prog, origin, m>>

\* main.rs, compile_to_binary step 3.
compile_to_binary == BuildWith(driver_compiler(compiler), "driver")

\* A caller that keeps its Compiler value and calls compile_program again.
compile_program_again == BuildWith(compiler, "held")

NextBuild == compile_to_binary \/ compile_program_again

SpecBuild == InitBuild /\ [][NextBuild]_vars

(***************************************************************************)
(* Claims about building (SpecBuild)                                       *)
(***************************************************************************)
Builds == 1..Len(hist)

\* No function of p is named main.
NoMain(p) == \A i \in 1..Len(p.funcs) : p.funcs[i].name # "main"

\* Owner, group and other may execute: the bits 0o100, 0o010, 0o001.
ExecutableByAll(mode) == ModeBit(mode, 6) = 1 /\ ModeBit(mode, 3) = 1 /\ ModeBit(mode, 0) = 1

\* Some Load or Store of main names a slot at or past n_locals.
SlotOutOfRange(p) ==
    /\ ~NoMain(p)
    /\ \E i \in 1..Len(MainOf(p).code) :
          /\ MainOf(p).code[i].op \in {"Load", "Store"}
          /\ MainOf(p).code[i].arg >= MainOf(p).n_locals

\* C5 (as claimed): a main with a Load or Store of a slot index >= n_locals
\* fails the build: no call returns Ok and no call leaves the image at out_path.
C5_OutOfRangeSlotRejected ==
    SlotOutOfRange(prog) =>
        \A i \in Builds :
            /\ hist[i].ret # "Ok"
            /\ hist[i].after.content # elf_image(hist[i].code, <<>>)

\* C6: with no function named main, compile_program panics before any
\* filesystem operation: the file at out_path is as it was, created or not.
C6_NoMainNoFileTouched ==
    NoMain(prog) =>
        \A i \in Builds : hist[i].ret = "panic" /\ hist[i].after = hist[i].before

C6_Witness ==
    /\ NoMain(prog)
    /\ Len(hist) = 1
    /\ hist[1].before.exists
    /\ fs.file.content = OldContent

\* C7 (as claimed): a build that returns an I/O error leaves out_path either
\* untouched or holding the whole image, never an empty or cut-off one.
C7_ErrLeavesNoPartialImage ==
    \A i \in Builds :
        hist[i].ret = "Err" =>
            \/ hist[i].after = hist[i].before
            \/ hist[i].after.content = elf_image(hist[i].code, <<>>)

\* C8 (as claimed): after Ok the file holds exactly the new image and is
\* executable by owner, group and other, whether or not it existed before.
C8_OkFileIsImageAndExecutable ==
    \A i \in Builds :
        hist[i].ret = "Ok" =>
            /\ hist[i].after.exists
            /\ hist[i].after.content = elf_image(hist[i].code, <<>>)
            /\ ExecutableByAll(hist[i].after.mode)

\* C9: two builds of the same program to the same path, each by the driver
\* and each returning Ok, leave byte-identical files.
C9_DriverBuildsIdempotent ==
    \A i \in Builds : \A j \in Builds :
        (/\ i < j
         /\ hist[i].via = "driver" /\ hist[j].via = "driver"
         /\ hist[i].ret = "Ok" /\ hist[j].ret = "Ok")
        => hist[j].after.content = hist[i].after.content

C9_Witness ==
    /\ Len(hist) = 2
    /\ hist[1].via = "driver" /\ hist[2].via = "driver"
    /\ hist[1].ret = "Ok" /\ hist[2].ret = "Ok"
    /\ Len(fs.file.content) > OFF_CODE

(***************************************************************************)
(* Claims about the running image (SpecRun, SpecRunFair)                   *)
(***************************************************************************)
Main == MainOf(prog)

\* The code buffer after the prologue and the first k instructions of f.
CodeUpTo(f, k) == compile_body(emit_prologue(<<>>, f.n_locals), SubSeq(f.code, 1, k), 1)

\* Where the code of instruction i of f starts, and where it ends.
StartOf(f, i) == Len(CodeUpTo(f, i - 1))
EndOf(f, i)   == Len(CodeUpTo(f, i))

RECURSIVE Concat(_, _)
Concat(writes, i) ==
    IF i > Len(writes) THEN <<>>
    ELSE (IF writes[i].fd = 1 THEN writes[i].bytes ELSE <<>>) \o Concat(writes, i + 1)

\* Everything written to file descriptor 1 so far.
Stdout(s) == Concat(s.out, 1)

\* The decimal digits of an unsigned word, most significant first.
RECURSIVE Digits(_)
Digits(w) ==
    LET u == UDivMod(ZeroWord, w, SignExtend32(10))
    IN  (IF IsZeroW(u.q) THEN <<>> ELSE Digits(u.q)) \o <<48 + u.r[1]>>

\* A 64-bit signed value in decimal, as ASCII.
Decimal(w) == IF SignBit(w) THEN <<45>> \o Digits(Neg64(w)) ELSE Digits(w)

\* { i32 x = 10; print(x); return 0; }
C1Body ==
    <<VarDecl("x", Number(10)), ExprStmt(BuiltinPrint(Ident("x"))), Return(Number(0))>>

\* C1 (as claimed): the image of { i32 x = 10; print(x); return 0; } writes
\* exactly the bytes '1' '0' '\n' to standard output and exits with status 0.
C1_PrintsTenAndExitsZero ==
    (origin.kind = "src" /\ origin.body = C1Body /\ m.halt # "run") =>
        /\ m.halt = "exit"
        /\ m.status = 0
        /\ Stdout(m) = <<49, 48, 10>>

\* -2^63, which no literal pushes: (-2^31 * -2^31) * 2.
I64_MIN == <<0, 0, 0, 0, 0, 0, 0, 128>>

MinProgram == <<PushI32(I32_MIN), PushI32(I32_MIN), Mul, PushI32(2), Mul, PrintOp>>

\* Main is "compute one value, print it": the value Print finds on the stack.
IsPrintOne ==
    \/ Main.code = MinProgram
    \/ (Len(Main.code) = 2 /\ Main.code[1].op = "PushI32" /\ Main.code[2] = PrintOp)

PrintedValue == IF Main.code = MinProgram THEN I64_MIN ELSE SignExtend32(Main.code[1].arg)

\* C2 (as claimed): for the value v on top of the stack, among them 0, -1,
\* -2^63 and 2^31-1, Print makes one write to descriptor 1 whose bytes are the
\* decimal representation of v followed by one newline.
C2_PrintWritesDecimal ==
    (IsPrintOne /\ m.halt = "exit") =>
        /\ Len(m.out) = 1
        /\ m.out[1].fd = 1
        /\ m.out[1].bytes = Decimal(PrintedValue) \o <<10>>

\* The operand-stack depth after the first k instructions, by the IR's rules.
RECURSIVE StaticDepth(_, _)
StaticDepth(code, k) ==
    IF k = 0 THEN 0
    ELSE StaticDepth(code, k - 1)
         + (CASE code[k].op \in {"PushI32", "Load"} -> 1
              [] code[k].op \in {"Pop", "Store", "Print", "Add", "Sub", "Mul", "Div"} -> -1
              [] OTHER -> 0)

HasPrint(f) == \E i \in 1..Len(f.code) : f.code[i] = PrintOp

FirstPrint(f) == CHOOSE i \in 1..Len(f.code) :
                    f.code[i] = PrintOp /\ \A j \in 1..(i - 1) : f.code[j] # PrintOp

\* The stack pointer with k operand words above the locals area.
RspAtDepth(s, f, k) == Off(Reg(s, RBP)) - 8 * f.n_locals - 8 * k

\* C3 (as claimed): when the code of a Print finishes, exactly its operand
\* word is gone from the hardware stack. Stated for the first Print of main,
\* before which the stack depth is the IR's.
C3_PrintLeavesStackBalanced ==
    (HasPrint(Main) /\ m.halt = "run" /\ m.rip = EndOf(Main, FirstPrint(Main))) =>
        Off(Reg(m, RSP)) = RspAtDepth(m, Main, StaticDepth(Main.code, FirstPrint(Main)))

\* The process exited at the syscall of the code of instruction i.
ExitedAt(i) == m.halt = "exit" /\ m.rip = EndOf(Main, i) - 2

\* C4 (as claimed): a Ret that finds the operand stack empty exits with
\* status 0; one that finds a word exits with that word as status.
C4_RetExitStatus ==
    \A i \in 1..Len(Main.code) :
        (Main.code[i] = Ret /\ ExitedAt(i)) =>
            IF Off(Reg(m, RSP)) - 8 >= RspAtDepth(m, Main, 0)
            THEN m.status = 0
            ELSE m.status = m.mem[Off(Reg(m, RSP)) - 8]

HasRet(f) == \E i \in 1..Len(f.code) : f.code[i] = Ret

\* C10 (as claimed): every execution ends at an exit syscall.
C10_StopsOnlyAtExit == m.halt # "run" => m.halt = "exit"

\* C10 (amended): every execution stops after finitely many steps, at an exit
\* syscall or at the fault of an instruction it executed (the divide error of
\* a Div); the instruction pointer stays inside the code buffer; a main with
\* no Ret that exits does so in the appended sequence, with status 0.
C10_StopsAtExitOrFault ==
    /\ <>(m.halt # "run")
    /\ [](m.halt \in {"run", "exit", "sigfpe", "segv"})
    /\ [](m.rip >= 0 /\ m.rip < Len(m.code))
    /\ []((~HasRet(Main) /\ m.halt = "exit") =>
              (m.rip = Len(m.code) - 2 /\ m.status = 0))

C10_Witness ==
    /\ ~HasRet(Main) /\ HasPrint(Main)
    /\ m.halt = "exit" /\ m.rip = Len(m.code) - 2
    /\ Len(m.out) = 1

(***************************************************************************)
(* Claims about the frame and the slots (SpecRun)                          *)
(***************************************************************************)
\* The length of the prologue for n local slots.
PrologueLen(n) == Len(emit_prologue(<<>>, n))

\* The prologue has just run.
AfterPrologue == m.halt = "run" /\ m.rip = PrologueLen(Main.n_locals)

\* The displacement from rbp that the code of Load(i) carries, as the
\* processor reads it: one signed byte, or four little-endian bytes.
LoadDisp(i) ==
    LET c == emit_load(<<>>, i)
    IN  IF Len(c) = 3 THEN FromS8(c[3]) ELSE FromLE32(SubSeq(c, 4, 7))

\* C11: the prologue saves rbp, sets rbp to rsp and lowers rsp by exactly
\* n_locals * 8 bytes, in the one-byte immediate form up to 127, the four-byte
\* form above, and with no subtraction for n_locals = 0; the slots' offsets are
\* pairwise distinct and lie inside the reserved area [rbp - n_locals*8, rbp).
C11_PrologueReservesFrame ==
    AfterPrologue =>
        LET n == Main.n_locals
        IN  /\ Off(Reg(m, RBP)) = -8
            /\ ~Unwritten(m, -8, 8) /\ RdBytes(m, 0, -8, 8) = ZeroWord
            /\ Off(Reg(m, RSP)) = Off(Reg(m, RBP)) - n * 8
            /\ PrologueLen(n) = (IF n = 0 THEN 4 ELSE IF n * 8 <= 127 THEN 8 ELSE 11)
            /\ \A i \in 0..(n - 1) :
                  /\ -(n * 8) <= LoadDisp(i) /\ LoadDisp(i) + 8 <= 0
                  /\ \A j \in 0..(n - 1) : i # j => LoadDisp(i) # LoadDisp(j)

C11_Witness ==
    /\ AfterPrologue
    /\ Main.n_locals * 8 > 127
    /\ Off(Reg(m, RSP)) = -8 - Main.n_locals * 8

\* The displacement the code of Store(i) carries, after its pop rax.
StoreDisp(i) ==
    LET c == emit_store(<<>>, i)
    IN  IF Len(c) = 5 THEN FromS8(c[5]) ELSE FromLE32(SubSeq(c, 5, 8))

\* The stack offset of slot i in the running frame, and the word there.
SlotOff(i) == Off(Reg(m, RBP)) - (i + 1) * 8

WordAt(s, off) == RdBytes(s, 0, off, 8)

\* The instructions of main that name a slot.
SlotInstrs == {k \in 1..Len(Main.code) : Main.code[k].op \in {"Load", "Store"}}

\* The code of instruction k has just run.
JustRan(k) == m.halt = "run" /\ m.rip = EndOf(Main, k)

\* The code of instruction k is about to run or is running.
Running(k) == m.halt = "run" /\ m.rip >= StartOf(Main, k) /\ m.rip < EndOf(Main, k)

\* Load(i) and Store(i) carry the displacement -(i+1)*8, in one byte up to
\* 128 and in four bytes above; a Store leaves the popped word in slot i, a
\* Load leaves slot i's word on top of the stack.
SlotAddressing ==
    \A k \in SlotInstrs :
        LET i == Main.code[k].arg
        IN  /\ LoadDisp(i) = -((i + 1) * 8) /\ StoreDisp(i) = -((i + 1) * 8)
            /\ (Len(emit_load(<<>>, i)) = 3) = ((i + 1) * 8 <= 128)
            /\ (Len(emit_store(<<>>, i)) = 5) = ((i + 1) * 8 <= 128)
            /\ (JustRan(k) /\ Main.code[k].op = "Store") =>
                  /\ WordAt(m, SlotOff(i)) = Reg(m, RAX)
                  /\ WordAt(m, Off(Reg(m, RSP)) - 8) = Reg(m, RAX)
            /\ (JustRan(k) /\ Main.code[k].op = "Load") =>
                  /\ ~Unwritten(m, Off(Reg(m, RSP)), 8)
                  /\ WordAt(m, Off(Reg(m, RSP))) = RdBytes(m, CHOOSE g \in Fills(m) : TRUE,
                                                           SlotOff(i), 8)

\* The code of a Store(i) writes the eight bytes of slot i and no other.
StoreWritesOneSlot ==
    \A k \in SlotInstrs :
        (Running(k) /\ Main.code[k].op = "Store") =>
            /\ DOMAIN m'.mem = DOMAIN m.mem \cup
                  (IF m'.rip = EndOf(Main, k) /\ m'.halt = "run"
                   THEN {SlotOff(Main.code[k].arg) + d : d \in 0..7} ELSE {})
            /\ \A x \in DOMAIN m.mem :
                  m'.mem[x] # m.mem[x] => x \in {SlotOff(Main.code[k].arg) + d : d \in 0..7}

\* A slot program returned what it stored and loaded back.
SlotRoundTrip ==
    (prog \in SlotPrograms /\ m.halt # "run") => (m.halt = "exit" /\ m.status = 42)

\* C12: Load(i) and Store(i) address the same word at rbp - (i+1)*8 in both
\* encoding tiers, so a Store(i) followed by Load(i) pushes back the stored
\* value, and a Store changes no other slot.
C12_SlotsAddressedAlike ==
    /\ [](SlotAddressing /\ SlotRoundTrip)
    /\ [][StoreWritesOneSlot]_vars

C12_Witness ==
    /\ prog \in SlotPrograms
    /\ Main.code[2] = Store(MaxSlot) /\ Main.code[4] = Store(0)
    /\ m.halt = "exit" /\ m.status = 42

(***************************************************************************)
(* Claims about return values and arithmetic (SpecRun)                     *)
(***************************************************************************)
\* Main is the source block { return k; }.
ReturnsLiteral(k) == origin.kind = "src" /\ origin.body = <<Return(Number(k))>>

\* C13: for the source `return k;`, k in 0..255, the IR is PushI32(k), Ret
\* and the Ret the front end appends; the image exits with status k at the
\* first Ret, and the second Ret is never executed.
C13_ReturnLiteralIsStatus ==
    \A k \in ReturnValues :
        ReturnsLiteral(k) =>
            /\ Main.code = <<PushI32(k), Ret, Ret>>
            /\ m.rip < EndOf(Main, 2)
            /\ m.halt \in {"run", "exit"}
            /\ m.halt = "exit" => (m.status = k /\ ExitedAt(2))

C13_Witness == ReturnsLiteral(7) /\ m.halt = "exit" /\ m.status = 7 /\ ExitedAt(2)

\* Main is PushI32(a), PushI32(b), one binary operation, Ret.
IsBinProgram(o) ==
    /\ Len(Main.code) = 4
    /\ Main.code[1].op = "PushI32" /\ Main.code[2].op = "PushI32"
    /\ Main.code[3] = o /\ Main.code[4] = Ret

LeftOperand == Main.code[1].arg

RightOperand == Main.code[2].arg

\* The word on top of the hardware stack.
TopWord == WordAt(m, Off(Reg(m, RSP)))

Abs(v) == IF v < 0 THEN -v ELSE v

\* The word on top of the stack is the small integer q.
TopIs(q) == ~Unwritten(m, Off(Reg(m, RSP)), 8) /\ TopWord = SignExtend32(q)

\* C14: for a dividend a and a non-zero divisor b the code of Div pushes the
\* quotient truncated toward zero: magnitude floor(|a| / |b|), sign of a * b;
\* the interpreter's Div gives the same number.
C14_DivTruncatesTowardZero ==
    (/\ IsBinProgram(Div)
     /\ LeftOperand \in Dividends /\ RightOperand \in Divisors) =>
        LET a == LeftOperand
            b == RightOperand
            q == bin(<<a, b>>, Div)[1]
        IN  /\ Abs(q) = Abs(a) \div Abs(b)
            /\ q # 0 => ((q < 0) = (a * b < 0))
            /\ a = 10 /\ b = 3 => q = 3
            /\ a = -7 /\ b = 2 => q = -3
            /\ m.halt \in {"run", "exit"}
            /\ JustRan(3) => (TopIs(q) /\ Off(Reg(m, RSP)) = RspAtDepth(m, Main, 1))
            /\ m.halt = "exit" => m.status = q % 256

C14_Witness ==
    /\ IsBinProgram(Div) /\ LeftOperand = -7 /\ RightOperand = 2
    /\ JustRan(3) /\ TopIs(-3)

(***************************************************************************)
(* The Image Builder on its own: generate_elf applied to a Compiler value  *)
(* with any code and data buffers.                                         *)
(***************************************************************************)
\* Bytes per code buffer and per data buffer.
MaxCode == 3

MaxData == 2

\* nop, ret
CodeAlphabet == {\h90, \hC3}

\* 0, 'A'
DataAlphabet == {0, 65}

CodeBuffers == UNION {[1..k -> CodeAlphabet] : k \in 0..MaxCode}

DataBuffers == UNION {[1..k -> DataAlphabet] : k \in 0..MaxData}

InitElf ==
    /\ \E c \in CodeBuffers, d \in DataBuffers : compiler = [code |-> c, data |-> d]
    /\ prog = MainOnly(<<>>, 0)
    /\ origin = [kind |-> "ir", body |-> <<>>]
    /\ fs = [file |-> NoFile, umask |-> 18]
    /\ ret = "none"
    /\ hist = <<>>
    /\ m = Loaded(<<>>, 0)

\* self.generate_elf(out_path), the medium willing.
GenerateElf ==
    /\ ret = "none"
    /\ LET g == generate_elf(compiler.code, compiler.data, fs.file, fs.umask, TRUE,
                             Len(elf_image(compiler.code, compiler.data)))
       IN  /\ ret' = g.ret
           /\ fs' = [fs EXCEPT !.file = g.file]
    /\ UNCHANGED <<prog, origin, m, compiler, hist>>

NextElf == GenerateElf

SpecElf == InitElf /\ [][NextElf]_vars

\* The file generate_elf produced.
Produced == ret = "Ok" /\ fs.file.exists

Image == fs.file.content

\* Fields of the image at a byte offset (0-based), read as the loader reads
\* them; -1 for a 64-bit field above 2^31.
U16At(img, off) == img[off + 1] + 256 * img[off + 2]

U32At(img, off) == FromLE32(SubSeq(img, off + 1, off + 4))

U64At(img, off) ==
    IF \A k \in 5..8 : img[off + k] = 0 /\ img[off + 4] < 128
    THEN U32At(img, off) ELSE -1

SegmentLen == Len(compiler.code) + Len(compiler.data)

\* C15: the produced file starts with 0x7F 'E' 'L' 'F', and the segment's
\* declared file size and memory size are both code length + data length.
C15_MagicAndSegmentSize ==
    Produced =>
        /\ SubSeq(Image, 1, 4) = <<127, 69, 76, 70>>
        /\ U64At(Image, OFF_PROG_HDR + 32) = SegmentLen
        /\ U64At(Image, OFF_PROG_HDR + 40) = SegmentLen

C15_Witness ==
    /\ Produced
    /\ Len(compiler.code) = MaxCode /\ Len(compiler.data) = MaxData
    /\ U64At(Image, OFF_PROG_HDR + 32) = MaxCode + MaxData

\* C16: the image is a 64-byte file header, the 56-byte segment record at
\* 0x40, zero bytes up to 0x1000, then code ++ data and nothing else; the
\* segment's offset is 0x1000, its address 0x401000, congruent to the offset
\* modulo the alignment 0x1000, and the entry address is that address.
C16_ImageLayout ==
    Produced =>
        /\ Len(Image) = \h1000 + SegmentLen
        /\ U16At(Image, 52) = 64 /\ U64At(Image, 32) = \h40
        /\ U16At(Image, 54) = 56 /\ U16At(Image, 56) = 1
        /\ SubSeq(Image, 1, 64) = elf_header
        /\ SubSeq(Image, \h40 + 1, \h40 + 56) = program_header(SegmentLen)
        /\ U32At(Image, \h40) = 1
        /\ \A k \in (\h40 + 56 + 1)..\h1000 : Image[k] = 0
        /\ SubSeq(Image, \h1000 + 1, Len(Image)) = compiler.code \o compiler.data
        /\ U64At(Image, \h40 + 8) = \h1000
        /\ U64At(Image, \h40 + 16) = \h401000
        /\ U64At(Image, \h40 + 48) = \h1000
        /\ U64At(Image, \h40 + 16) % \h1000 = U64At(Image, \h40 + 8) % \h1000
        /\ U64At(Image, 24) = U64At(Image, \h40 + 16)

C16_Witness ==
    /\ Produced
    /\ Len(compiler.code) = MaxCode /\ Len(compiler.data) = MaxData
    /\ Len(Image) = \h1000 + MaxCode + MaxData
    /\ Image[\h1000 + 1] = compiler.code[1]


\* The segment of an image: the bytes from OFF_CODE on.
SegmentOf(image) == SubSeq(image, OFF_CODE + 1, Len(image))

\* C17: the segment of the image a compile_program call writes is exactly the
\* prologue, the lowering of that call's main and the closing exit sequence,
\* also when the call is made on a Compiler value used before.
C17_EachCallOwnsItsBuffers ==
    \A i \in Builds :
        hist[i].ret = "Ok" =>
            SegmentOf(hist[i].after.content) = compile_code(<<>>, MainOf(prog))


(***************************************************************************)
(* Claims about the code of Print (SpecRun)                                *)
(***************************************************************************)
\* The offset in the code of the first byte of main's first Print.
PrintStart == StartOf(Main, FirstPrint(Main))

\* The process is about to execute the byte d of the code of Print.
PrintAt(d) == m.halt = "run" /\ m.rip = PrintStart + d

\* Where the two-byte branch at byte d of the code of Print lands.
BranchTarget(d) == d + 2 + FromS8(m.code[PrintStart + d + 2])

\* The scratch buffer: 20 bytes below the three saved registers.
BufLen == 20

BufBase == RspAtDepth(m, Main, 0) - 24 - BufLen

FlagWord == IF SignBit(PrintedValue) THEN SignExtend32(1) ELSE ZeroWord

\* C18: on both paths exactly one flag word is pushed below the buffer, 1 for
\* a negative value and 0 otherwise, and it is the word popped and tested for
\* the minus sign; jns lands on push 0, the jmp after push 1 on mov rbx, 10,
\* jnz on the first instruction of the loop and jz on .write, past the code
\* that stores the minus sign.
C18_SignFlagOnBothPaths ==
    IsPrintOne =>
        /\ BranchTarget(22) = 31
        /\ BranchTarget(29) = 33
        /\ BranchTarget(57) = 40
        /\ BranchTarget(62) = 70
        /\ PrintAt(33) => /\ Off(Reg(m, RSP)) = BufBase - 8
                          /\ WordAt(m, BufBase - 8) = FlagWord
        /\ PrintAt(60) => /\ Off(Reg(m, RSP)) = BufBase
                          /\ Reg(m, RAX) = FlagWord


\* The bytes of the scratch buffer.
Buffer == BufBase..(BufBase + BufLen - 1)

\* The bytes of the Print code at which a byte is stored through rdi:
\* mov byte [rdi], 10; mov [rdi], dl; mov byte [rdi], '-'.
PrintStores == {13, 49, 64}

\* C19: every byte Print stores (newline, digits, minus sign) and every byte
\* of the range it passes to write lies inside the 20-byte scratch buffer.
C19_PrintStaysInBuffer ==
    IsPrintOne =>
        /\ \A d \in PrintStores : PrintAt(d) => Off(Reg(m, RDI)) \in Buffer
        /\ \A w \in 1..Len(m.out) :
              \A k \in 0..(m.out[w].len - 1) : (m.out[w].buf + k) \in Buffer


(***************************************************************************)
(* Claims about operand order and width (SpecRun)                          *)
(***************************************************************************)
\* The 64-bit results for a = 2^31 - 1, b = -2^31: a + b = -1,
\* a - b = 2^32 - 1, a * b = -2^62 + 2^31, a / b = 0.
WideResult(o) ==
    CASE o = Add -> <<255, 255, 255, 255, 255, 255, 255, 255>>
      [] o = Sub -> <<255, 255, 255, 255, 0, 0, 0, 0>>
      [] o = Mul -> <<0, 0, 0, 128, 0, 0, 0, 192>>
      [] o = Div -> ZeroWord

\* The instruction left exactly one word where the two operand words were.
OneResultWord ==
    /\ Off(Reg(m, RSP)) = RspAtDepth(m, Main, 1)
    /\ ~Unwritten(m, Off(Reg(m, RSP)), 8)

\* C20: with a pushed first and b second, Sub pushes a - b and Div a / b (Add
\* a + b, Mul a * b), as the interpreter's bin does; the two operand words are
\* replaced by one result word, computed on 64 bits: results outside the
\* 32-bit range are kept whole.
C20_OperandOrderAndWidth ==
    \A o \in BinOps :
        (IsBinProgram(o) /\ JustRan(3)) =>
            LET a == LeftOperand
                b == RightOperand
            IN  /\ OneResultWord
                /\ (a \in Operands /\ b \in Operands) =>
                      /\ TopIs(bin(<<a, b>>, o)[1])
                      /\ bin(<<a, b>>, Add) = <<a + b>>
                      /\ bin(<<a, b>>, Sub) = <<a - b>>
                      /\ bin(<<a, b>>, Mul) = <<a * b>>
                      /\ Abs(bin(<<a, b>>, Div)[1]) = Abs(a) \div Abs(b)
                /\ (a = I32_MAX /\ b = I32_MIN) => TopWord = WideResult(o)
                /\ (a = I32_MIN /\ b = -1 /\ o = Div) =>
                      TopWord = <<0, 0, 0, 128, 0, 0, 0, 0>>

C20_Witness ==
    /\ IsBinProgram(Sub) /\ JustRan(3)
    /\ LeftOperand = I32_MAX /\ RightOperand = I32_MIN
    /\ TopWord = <<255, 255, 255, 255, 0, 0, 0, 0>>


(***************************************************************************)
(* codegen.rs: compile_func's LocalEnv, one alloc call at a time.  hist     *)
(* records each call; origin is the function definition read so far.       *)
(***************************************************************************)
\* alloc calls per function.
MaxAllocs == 4

EnvNames == {"a", "b", "c"}

NoGlobals == [x \in {} |-> 0]

\* The LocalEnv value compile_func holds.
Env == IF hist = <<>> THEN LocalEnvDefault ELSE hist[Len(hist)].after

InitEnv ==
    /\ prog = MainOnly(<<>>, 0)
    /\ origin = [kind |-> "src", params |-> <<>>, body |-> <<>>]
    /\ compiler = Compiler_new
    /\ fs = [file |-> NoFile, umask |-> 18]
    /\ ret = "none"
    /\ hist = <<>>
    /\ m = Loaded(<<>>, 0)

\* compile_func: env.alloc(&p.name) for the next parameter.
AllocParam ==
    /\ ret = "none" /\ origin.body = <<>> /\ Len(hist) < MaxAllocs
    /\ \E name \in EnvNames :
          LET al == alloc(Env, name)
          IN  /\ hist' = Append(hist, [via |-> "param", name |-> name, idx |-> al.idx,
                                       before |-> Env, after |-> al.env])
              /\ origin' = [origin EXCEPT !.params = Append(@, name)]
    /\ UNCHANGED <<prog, m, compiler, fs, ret>>

\* emit_stmt for the next statement of the body, a VarDecl or a ConstDecl;
\* the slot alloc returned is the one its Store names.
AllocDecl ==
    /\ ret = "none" /\ Len(hist) < MaxAllocs
    /\ \E name \in EnvNames :
          \E st \in {VarDecl(name, NoExpr), ConstDecl(name, Number(1))} :
              LET r == emit_stmt(st, Env, NoGlobals, <<>>)
              IN  /\ hist' = Append(hist, [via |-> "decl", name |-> name,
                                           idx |-> r.code[Len(r.code)].arg,
                                           before |-> Env, after |-> r.env])
                  /\ origin' = [origin EXCEPT !.body = Append(@, st)]
    /\ UNCHANGED <<prog, m, compiler, fs, ret>>

\* compile_func returns the Func for the definition read.
ReturnFunc ==
    /\ ret = "none"
    /\ prog' = [funcs |-> <<compile_func(FuncDef("main", origin.params, origin.body),
                                         NoGlobals).func>>]
    /\ ret' = "Ok"
    /\ UNCHANGED <<origin, m, compiler, fs, hist>>

NextEnv == AllocParam \/ AllocDecl \/ ReturnFunc

SpecEnv == InitEnv /\ [][NextEnv]_vars

\* The names given to the first k alloc calls.
Seen(k) == {hist[i].name : i \in 1..k}

\* C21: after any sequence of alloc calls the map is a bijection between the
\* distinct names seen and 0..next-1; a new name gets the number of distinct
\* names seen before it, a seen name gets its slot back and changes nothing;
\* n_locals of the function is the number of distinct names.
C21_SlotsDenseAndShared ==
    LET seen == Seen(Len(hist))
    IN  /\ DOMAIN Env.map = seen
        /\ {Env.map[n] : n \in seen} = 0..(Env.next - 1)
        /\ \A x \in seen : \A y \in seen : Env.map[x] = Env.map[y] => x = y
        /\ Env.next = Cardinality(seen)
        /\ \A i \in 1..Len(hist) :
              IF hist[i].name \in Seen(i - 1)
              THEN /\ hist[i].idx = hist[i].before.map[hist[i].name]
                   /\ hist[i].after = hist[i].before
              ELSE /\ hist[i].idx = Cardinality(Seen(i - 1))
                   /\ hist[i].after.map[hist[i].name] = hist[i].idx
        /\ ret = "Ok" => /\ prog.funcs[1].n_locals = Cardinality(seen)
                         /\ Len(origin.params) + Len(origin.body) = Len(hist)

C21_Witness ==
    /\ ret = "Ok" /\ Len(hist) = MaxAllocs
    /\ origin.params = <<"a", "b">>
    /\ hist[3].name = "a" /\ hist[3].via = "decl" /\ hist[3].idx = 0
    /\ hist[4].name = "c" /\ hist[4].idx = 2
    /\ prog.funcs[1].n_locals = 3


(***************************************************************************)
(* The legacy hello helpers: emit_min_elf_hello of elfgen.rs and of        *)
(* samplegen.rs.  Offsets in the code vector count from 0, as the source's *)
(* indexes do.                                                             *)
(***************************************************************************)
\* The code vector before any patch; `len` is the immediate of mov rdx.
hello_code(len) ==
    <<\h48, \hC7, \hC0, \h01, \h00, \h00, \h00>>         \* mov rax, 1
    \o <<\h48, \hC7, \hC7, \h01, \h00, \h00, \h00>>      \* mov rdi, 1
    \o <<\h48, \h8D, \h35, 0, 0, 0, 0>>                  \* lea rsi, [rip+disp32]
    \o <<\h48, \hC7, \hC2, len, \h00, \h00, \h00>>       \* mov rdx, len
    \o <<\h0F, \h05>>                                    \* syscall
    \o <<\h48, \hC7, \hC0, \h3C, \h00, \h00, \h00>>      \* mov rax, 60
    \o <<\h48, \h31, \hFF>>                              \* xor rdi, rdi
    \o <<\h0F, \h05>>                                    \* syscall

\* code[at + 0..3] = bytes.
patch4(code, at, bytes) ==
    [k \in 1..Len(code) |-> IF k - 1 \in at..(at + 3) THEN bytes[k - at] ELSE code[k]]

\* elfgen.rs: the code vector after the patch, and the message b"Hello\n".
emit_min_elf_hello ==
    LET code == hello_code(6)
        lea_disp32_offset_in_code == 12 + 3
        msg == <<72, 101, 108, 108, 111, 10>>
        code_start_file_off == OFF_CODE
        msg_file_off == code_start_file_off + Len(code)
        lea_next_ip_file_off == code_start_file_off + (12 + 7)
        disp == msg_file_off - lea_next_ip_file_off
    IN  [before |-> code, msg |-> msg,
         code |-> patch4(code, lea_disp32_offset_in_code, to_le_bytes(disp, 4))]

\* samplegen.rs: the code vector after both patches, for `message`.
samplegen_emit_min_elf_hello(message) ==
    LET code == hello_code(0)
        lea_disp32_offset_in_code == 14 + 3
        rdx_len_offset_in_code == 21 + 3
        code1 == patch4(code, rdx_len_offset_in_code, to_le_bytes(Len(message), 4))
        code_start_file_off == OFF_CODE
        msg_file_off == code_start_file_off + Len(code1)
        lea_next_ip_file_off == code_start_file_off + (14 + 7)
        disp == msg_file_off - lea_next_ip_file_off
    IN  [before |-> code, msg |-> message,
         code |-> patch4(code1, lea_disp32_offset_in_code, to_le_bytes(disp, 4))]

\* Bytes per message.
MaxMsg == 4

\* 'H', 'i', newline
MsgAlphabet == {72, 105, 10}

Messages == UNION {[1..k -> MsgAlphabet] : k \in 0..MaxMsg}

InitHello ==
    /\ origin \in {[kind |-> "msg", body |-> b] : b \in Messages}
    /\ prog = MainOnly(<<>>, 0)
    /\ compiler = Compiler_new
    /\ fs = [file |-> NoFile, umask |-> 18]
    /\ ret = "none"
    /\ hist = <<>>
    /\ m = Loaded(<<>>, 0)

\* A helper call: the segment is code ++ msg, written as the image.
HelloWith(h, via) ==
    /\ ret = "none"
    /\ LET g == generate_elf(h.code, h.msg, fs.file, fs.umask, TRUE,
                             Len(elf_image(h.code, h.msg)))
       IN  /\ ret' = g.ret
           /\ fs' = [fs EXCEPT !.file = g.file]
    /\ compiler' = [code |-> h.code, data |-> h.msg]
    /\ hist' = <<[via |-> via, before |-> h.before]>>
    /\ UNCHANGED <<prog, origin, m>>

ElfgenHello == HelloWith(emit_min_elf_hello, "elfgen")

SamplegenHello == HelloWith(samplegen_emit_min_elf_hello(origin.body), "samplegen")

NextHello == ElfgenHello \/ SamplegenHello

SpecHello == InitHello /\ [][NextHello]_vars

\* The offset of the lea instruction in the helper's code: its first byte
\* follows the two 7-byte mov instructions; mov rdx follows the 7-byte lea.
LeaStart == 7 + 7

\* C22: in each helper the patch changes only the four displacement bytes of
\* lea rsi, [rip+disp32] (and, in samplegen.rs, the four immediate bytes of
\* mov rdx); the displacement is the message's offset in the segment minus
\* the offset of the first byte after the lea; in samplegen.rs the immediate
\* of mov rdx is the message's length.
C22_PatchOnlyDisplacement ==
    hist # <<>> =>
        LET code   == compiler.code
            before == hist[1].before
            disp   == (LeaStart + 3)..(LeaStart + 6)
            imm    == (LeaStart + 7 + 3)..(LeaStart + 7 + 6)
            may    == IF hist[1].via = "samplegen" THEN disp \cup imm ELSE disp
        IN  /\ SubSeq(before, LeaStart + 1, LeaStart + 3) = <<\h48, \h8D, \h35>>
            /\ \A k \in 1..Len(code) : code[k] # before[k] => (k - 1) \in may
            /\ FromLE32(SubSeq(code, LeaStart + 4, LeaStart + 7))
                  = Len(code) - (LeaStart + 7)
            /\ hist[1].via = "samplegen" =>
                  FromLE32(SubSeq(code, LeaStart + 11, LeaStart + 14)) = Len(compiler.data)
            /\ SegmentOf(fs.file.content) = code \o compiler.data


(***************************************************************************)
(* The image against the interpreter (SpecRun)                             *)
(***************************************************************************)
\* Main has no Print, and VM::run never pops an empty stack (Pop, Store, Ret
\* need one word, a binary operation two), never divides by zero, names only
\* slots below n_locals, and keeps every value within i32.
Admissible ==
    /\ ~HasPrint(Main)
    /\ \A k \in 1..Len(Main.code) :
          LET v == vm_after(Main, k - 1)
              i == Main.code[k]
              need == CASE i.op \in {"Pop", "Store", "Ret"} -> 1
                        [] i.op \in {"Add", "Sub", "Mul", "Div"} -> 2
                        [] OTHER -> 0
          IN  (v.halt = "run" /\ v.ip = k - 1) =>
                 /\ Len(v.stack) >= need
                 /\ i.op \in {"Load", "Store"} => i.arg < Main.n_locals
                 /\ vm_step(Main, v).halt \in {"run", "ret"}

\* The hardware operand stack and the slots hold the sign-extended values of
\* the interpreter state v.
Agrees(v) ==
    /\ Off(Reg(m, RSP)) = RspAtDepth(m, Main, Len(v.stack))
    /\ \A j \in 1..Len(v.stack) :
          RdBytes(m, 0, RspAtDepth(m, Main, j), 8) = SignExtend32(v.stack[j])
    /\ \A i \in 0..(Main.n_locals - 1) :
          RdBytes(m, 0, Off(Reg(m, RBP)) - 8 * (i + 1), 8) = SignExtend32(v.locals[i + 1])

\* C23: for an admissible main the image and the interpreter agree after each
\* instruction, on the operand stack and on the slots, and the exit status is
\* the low 8 bits of what VM::run returns.
C23_ImageRefinesInterpreter ==
    Admissible =>
        /\ m.halt \in {"run", "exit"}
        /\ \A k \in 0..Len(Main.code) :
              (m.halt = "run" /\ m.rip = EndOf(Main, k)) =>
                  /\ vm_after(Main, k).halt = "run" /\ vm_after(Main, k).ip = k
                  /\ Agrees(vm_after(Main, k))
        /\ m.halt = "exit" => m.status = vm_run(Main) % 256

C23_Witness ==
    /\ Admissible
    /\ Main.code = <<PushI32(5), Store(1), Load(0), Load(1), Sub, Ret>>
    /\ m.halt = "exit" /\ m.status = 251 /\ vm_run(Main) = -5


(***************************************************************************)
(* Claims about front-end mains (SpecRun)                                  *)
(***************************************************************************)
\* C24: in the image of a main the front end produced, from the end of the
\* prologue up to the exit syscall rsp never rises above the bottom of the
\* locals area, rbp - 8*n_locals.
C24_NoOperandStackUnderflow ==
    (/\ origin.kind = "src"
     /\ m.halt \in {"run", "exit"}
     /\ m.rip >= EndOf(Main, 0)) =>
        Off(Reg(m, RSP)) <= RspAtDepth(m, Main, 0)

=============================================================================
